---- MODULE Spec2Model ----
(***************************************************************************)
(* Model of main.py: a FastAPI service with an in-memory result store      *)
(* (task_results), a task runner (run_main_task + simulate_work), the      *)
(* read handlers (root, health_check, get_task_history, get_task_result)   *)
(* and the startup hook auto_run_task.                                     *)
(*                                                                         *)
(* All handlers are coroutines on one asyncio event loop: a handler runs   *)
(* atomically from one `await asyncio.sleep` to the next, so every action  *)
(* below is one such segment of a handler.  Time is an integer clock; a    *)
(* sleeping coroutine resumes when the clock reaches its wake-up time and   *)
(* the clock does not advance while some coroutine is ready to run.        *)
(*                                                                         *)
(* The Work Unit (simulate_work) is the pluggable part of the program      *)
(* ("Replace this with your actual automation logic"): besides its five    *)
(* sleeps it may raise an Exception when it is resumed, which is what the  *)
(* `except Exception` branch of run_main_task handles.                     *)
(*                                                                         *)
(* Requests reach the handlers at any moment while the process serves,     *)
(* the warm-up, the auto-run and the flush delay included, so a manual run *)
(* may overlap the auto-run or another manual run.  What the process does  *)
(* between os.kill(SIGTERM) and its end is left open: no new request is    *)
(* served, runs in flight may still be resumed, and the process may end at *)
(* any moment (Terminate).  sys.exit(1) ends the process at once.          *)
(***************************************************************************)
EXTENDS Integers, Sequences, FiniteSets, TLC

\* ---------------------------------------------------------------- bounds
\* Number of POST /run-task requests the environment issues.
MaxManualRuns == 1

\* Error texts a failing Work Unit may raise (str(e)).
ErrTexts == {"boom", "disk full"}

\* ------------------------------------------------------- program constants
\* simulate_work: the nominal duration of each sub-step (main.py 158-164).
Durations == <<2, 5, 3, 1, 2>>

\* auto_run_task: `await asyncio.sleep(2)` before the run.
WarmUp == 2

\* auto_run_task: `await asyncio.sleep(5)` before SIGTERM.
FlushDelay == 5

VARIABLES
    now,            \* the clock (datetime.now()), in whole time units
    start_time,     \* module global start_time
    task_results,   \* module global task_results: sequence of TaskResult
    runs,           \* invocations of run_main_task, in invocation order
    auto,           \* position of the auto_run_task coroutine
    proc,           \* "running", "shutting_down", "terminated", "exited"
    exit_code,      \* exit status once proc = "exited", else -1
    sigterm_count,  \* number of os.kill(os.getpid(), SIGTERM) calls made
    work_done,      \* history: run indexes in the order their Work Unit ended
    ret             \* what the step just taken handed back to its caller

vars == <<now, start_time, task_results, runs, auto, proc, exit_code,
          sigterm_count, work_done, ret>>

\* ------------------------------------------------------------ data model
\* f"task_{n}"
TaskId(n) == "task_" \o ToString(n)

\* class TaskResult(BaseModel)
TaskResult(task_id, status, message, timestamp, duration) ==
    [task_id |-> task_id, status |-> status, message |-> message,
     timestamp |-> timestamp, duration_seconds |-> duration]

\* A step that returns nothing to a caller.
NoRet ==
    [op |-> "none", arg |-> "", code |-> 0, body |-> <<>>, detail |-> "",
     status |-> "", uptime_seconds |-> 0, run |-> 0]

\* A handler's answer: the operation, its argument, the HTTP status, the
\* TaskResults of the body, the error detail, and the run that answered.
Reply(op, arg, code, body, detail, run) ==
    [op |-> op, arg |-> arg, code |-> code, body |-> body, detail |-> detail,
     status |-> "", uptime_seconds |-> 0, run |-> run]

\* (datetime.now() - start_time).total_seconds()
Uptime == now - start_time

\* ------------------------------------------------------------------ Init
Init ==
    /\ now = 0
    /\ start_time = 0
    /\ task_results = <<>>
    /\ runs = <<>>
    /\ auto = [pc |-> "warmup", wake |-> WarmUp, run |-> 0]
    /\ proc = "running"
    /\ exit_code = -1
    /\ sigterm_count = 0
    /\ work_done = <<>>
    /\ ret = NoRet

\* ------------------------------------------------------------ scheduling
Alive == proc \in {"running", "shutting_down"}

\* The HTTP layer hands requests to handlers only until shutdown is asked.
Serving == proc = "running"

Working(r) == r \in 1..Len(runs) /\ runs[r].pc = "working"

\* A coroutine suspended in asyncio.sleep whose delay has elapsed.
Resumable(r) == Working(r) /\ runs[r].wake <= now

AutoSleeping == auto.pc \in {"warmup", "flush"}

AutoResumable == AutoSleeping /\ auto.wake <= now

SomeReady == AutoResumable \/ \E r \in 1..Len(runs) : Resumable(r)

SomeSleeping == AutoSleeping \/ \E r \in 1..Len(runs) : Working(r)

ManualRuns == {r \in 1..Len(runs) : runs[r].caller = "http"}

\* The event loop waits for the next timer: the clock moves on one unit.
Tick ==
    /\ Alive
    /\ ~SomeReady
    /\ SomeSleeping
    /\ now' = now + 1
    /\ ret' = NoRet
    /\ UNCHANGED <<start_time, task_results, runs, auto, proc, exit_code,
                   sigterm_count, work_done>>

\* ------------------------------------------------------------ Task Runner
\* simulate_work: after the k-th sleep the next sub-step is started.
NumSteps == Len(Durations)

\* Mutation: the id is numbered by invocations instead of by store length.
NewRun_by_invocation(caller) ==
    [caller |-> caller,
     task_id |-> TaskId(Len(runs) + 1),
     task_start |-> now,
     step |-> 1,
     wake |-> now + Durations[1],
     pc |-> "working",
     alone |-> \A s \in 1..Len(runs) : runs[s].pc /= "working",
     store_len |-> Len(task_results),
     result |-> <<>>,
     detail |-> "",
     pos |-> 0]

\* Mutation: the id is the store length, without the + 1.
NewRun_zero_based(caller) ==
    [caller |-> caller,
     task_id |-> TaskId(Len(task_results)),
     task_start |-> now,
     step |-> 1,
     wake |-> now + Durations[1],
     pc |-> "working",
     alone |-> \A s \in 1..Len(runs) : runs[s].pc /= "working",
     store_len |-> Len(task_results),
     result |-> <<>>,
     detail |-> "",
     pos |-> 0]

\* run_main_task, lines 91-100: the id is read from the store length, the
\* start time is taken, and the Work Unit runs up to its first sleep.
\* History fields: alone (no other run was in flight at the invocation),
\* store_len (the store length at the invocation), result (the TaskResult
\* this run built), detail (the error detail it raised with) and pos (where
\* it appended its entry).
NewRun(caller) ==
    [caller |-> caller,
     task_id |-> TaskId(Len(task_results) + 1),
     task_start |-> now,
     step |-> 1,
     wake |-> now + Durations[1],
     pc |-> "working",
     alone |-> \A s \in 1..Len(runs) : runs[s].pc /= "working",
     store_len |-> Len(task_results),
     result |-> <<>>,
     detail |-> "",
     pos |-> 0]

run_main_task_begin(caller) ==
    /\ runs' = Append(runs, NewRun(caller))
    /\ UNCHANGED <<task_results, work_done>>

\* simulate_work, lines 166-169: one sub-step is over, the next one sleeps.
simulate_work_step(r) ==
    /\ Resumable(r)
    /\ runs[r].step < NumSteps
    /\ runs' = [runs EXCEPT ![r].step = @ + 1,
                            ![r].wake = now + Durations[runs[r].step + 1]]
    /\ UNCHANGED <<task_results, work_done>>

\* Mutation: the operands of the duration are swapped.
CompletedResult_swapped(r) ==
    TaskResult(runs[r].task_id, "completed", "Task completed successfully",
               now, runs[r].task_start - now)

\* Mutation: the id is generated when the entry is built, after the work.
CompletedResult_late_id(r) ==
    TaskResult(TaskId(Len(task_results) + 1), "completed",
               "Task completed successfully", now, now - runs[r].task_start)

\* run_main_task, lines 103-111.
CompletedResult(r) ==
    TaskResult(runs[r].task_id, "completed", "Task completed successfully",
               now, now - runs[r].task_start)

\* Mutation: the failed entry is built with the success path's status.
FailedResult_completed(r, e) ==
    TaskResult(runs[r].task_id, "completed", "Task failed: " \o e,
               now, now - runs[r].task_start)

\* run_main_task, lines 119-126.
FailedResult(r, e) ==
    TaskResult(runs[r].task_id, "failed", "Task failed: " \o e,
               now, now - runs[r].task_start)

\* Mutation: the result is inserted by the start time of its run
\* (request-arrival order) instead of being appended.
StoreAppend_by_start(store, result) ==
    LET start(x) == x.timestamp - x.duration_seconds
        k == Cardinality({i \in 1..Len(store) :
                             start(store[i]) <= start(result)})
    IN  SubSeq(store, 1, k) \o <<result>> \o SubSeq(store, k + 1, Len(store))

\* Mutation: the result is inserted at the front of the list.
StoreAppend_front(store, result) == <<result>> \o store

\* task_results.append(result)
StoreAppend(store, result) == Append(store, result)

\* run_main_task, lines 100-116: the Work Unit ends normally after its last
\* sleep; the entry is built, appended and returned without suspension.
run_main_task_success(r) ==
    /\ Resumable(r)
    /\ runs[r].step = NumSteps
    /\ task_results' = StoreAppend(task_results, CompletedResult(r))
    /\ runs' = [runs EXCEPT ![r].pc = "returned",
                            ![r].result = <<CompletedResult(r)>>,
                            ![r].pos = Len(task_results) + 1]
    /\ work_done' = Append(work_done, r)

\* Mutation: the HTTPException carries the bare error text.
HttpDetail_bare(e) == e

\* Line 131: detail=f"Task failed: {str(e)}" of the HTTPException.
HttpDetail(e) == "Task failed: " \o e

\* Mutation: the except branch raises without recording the failure.
run_main_task_except_drops(r, e) ==
    /\ Resumable(r)
    /\ task_results' = task_results
    /\ runs' = [runs EXCEPT ![r].pc = "raised"]
    /\ work_done' = Append(work_done, r)

\* run_main_task, lines 118-131: the Work Unit raises e when resumed; the
\* failed entry is built and appended, then HTTPException(500) is raised.
run_main_task_except(r, e) ==
    /\ Resumable(r)
    /\ task_results' = StoreAppend(task_results, FailedResult(r, e))
    /\ runs' = [runs EXCEPT ![r].pc = "raised",
                            ![r].result = <<FailedResult(r, e)>>,
                            ![r].detail = HttpDetail(e),
                            ![r].pos = Len(task_results) + 1]
    /\ work_done' = Append(work_done, r)

\* ------------------------------------------------------- POST /run-task
PostRunTask ==
    /\ Serving
    /\ Cardinality(ManualRuns) < MaxManualRuns
    /\ run_main_task_begin("http")
    /\ ret' = NoRet
    /\ UNCHANGED <<now, start_time, auto, proc, exit_code, sigterm_count>>

WorkStep(r) ==
    /\ Alive
    /\ simulate_work_step(r)
    /\ ret' = NoRet
    /\ UNCHANGED <<now, start_time, auto, proc, exit_code, sigterm_count>>

\* Mutation: a run is resumed and appends although the process has ended.
PostRunTaskReturn_after_end(r) ==
    /\ Working(r)
    /\ runs[r].caller = "http"
    /\ run_main_task_success(r)
    /\ ret' = Reply("run_main_task", "", 200, <<CompletedResult(r)>>, "", r)
    /\ UNCHANGED <<now, start_time, auto, proc, exit_code, sigterm_count>>

\* The endpoint answers 200 with the TaskResult.
PostRunTaskReturn(r) ==
    /\ Alive
    /\ Working(r)
    /\ runs[r].caller = "http"
    /\ run_main_task_success(r)
    /\ ret' = Reply("run_main_task", "", 200, <<CompletedResult(r)>>, "", r)
    /\ UNCHANGED <<now, start_time, auto, proc, exit_code, sigterm_count>>

\* Mutation: the failure of a manual run ends the process like the auto-run's.
PostRunTaskRaise_exits(r, e) ==
    /\ Alive
    /\ Working(r)
    /\ runs[r].caller = "http"
    /\ run_main_task_except(r, e)
    /\ ret' = Reply("run_main_task", "", 500, <<>>, HttpDetail(e), r)
    /\ proc' = "exited"
    /\ exit_code' = 1
    /\ UNCHANGED <<now, start_time, auto, sigterm_count>>

\* The endpoint answers 500 with detail "Task failed: <e>".
PostRunTaskRaise(r, e) ==
    /\ Alive
    /\ Working(r)
    /\ runs[r].caller = "http"
    /\ run_main_task_except(r, e)
    /\ ret' = Reply("run_main_task", "", 500, <<>>, HttpDetail(e), r)
    /\ UNCHANGED <<now, start_time, auto, proc, exit_code, sigterm_count>>

\* --------------------------------------------------------- auto_run_task
\* Mutation: run_main_task is called without awaiting the warm-up sleep.
AutoRunStart_no_warmup ==
    /\ Alive
    /\ auto.pc = "warmup"
    /\ run_main_task_begin("auto")
    /\ auto' = [pc |-> "running", wake |-> 0, run |-> Len(runs) + 1]
    /\ ret' = NoRet
    /\ UNCHANGED <<now, start_time, proc, exit_code, sigterm_count>>

\* Lines 179-184: the warm-up sleep is over, run_main_task is called.
AutoRunStart ==
    /\ Alive
    /\ auto.pc = "warmup"
    /\ AutoResumable
    /\ run_main_task_begin("auto")
    /\ auto' = [pc |-> "running", wake |-> 0, run |-> Len(runs) + 1]
    /\ ret' = NoRet
    /\ UNCHANGED <<now, start_time, proc, exit_code, sigterm_count>>

\* Lines 184-189: run_main_task returned; the flush sleep starts.
AutoRunReturn ==
    /\ Alive
    /\ auto.pc = "running"
    /\ run_main_task_success(auto.run)
    /\ auto' = [auto EXCEPT !.pc = "flush", !.wake = now + FlushDelay]
    /\ ret' = Reply("run_main_task", "", 200,
                    <<CompletedResult(auto.run)>>, "", auto.run)
    /\ UNCHANGED <<now, start_time, proc, exit_code, sigterm_count>>

\* Mutation: the except branch only logs the failure and does not exit.
AutoRunRaise_logs_only(e) ==
    /\ Alive
    /\ auto.pc = "running"
    /\ run_main_task_except(auto.run, e)
    /\ auto' = [auto EXCEPT !.pc = "failed"]
    /\ ret' = Reply("run_main_task", "", 500, <<>>,
                    HttpDetail(e), auto.run)
    /\ UNCHANGED <<now, start_time, proc, exit_code, sigterm_count>>

\* Lines 197-200: run_main_task raised; sys.exit(1).
AutoRunRaise(e) ==
    /\ Alive
    /\ auto.pc = "running"
    /\ run_main_task_except(auto.run, e)
    /\ auto' = [auto EXCEPT !.pc = "failed"]
    /\ proc' = "exited"
    /\ exit_code' = 1
    /\ ret' = Reply("run_main_task", "", 500, <<>>,
                    HttpDetail(e), auto.run)
    /\ UNCHANGED <<now, start_time, sigterm_count>>

\* Mutation: SIGTERM is sent without awaiting the flush sleep.
AutoShutdown_no_flush ==
    /\ Alive
    /\ auto.pc = "flush"
    /\ auto' = [auto EXCEPT !.pc = "sigterm_sent"]
    /\ sigterm_count' = sigterm_count + 1
    /\ proc' = "shutting_down"
    /\ ret' = NoRet
    /\ UNCHANGED <<now, start_time, task_results, runs, exit_code, work_done>>

\* Lines 189-195: the flush sleep is over; os.kill(os.getpid(), SIGTERM).
AutoShutdown ==
    /\ Alive
    /\ auto.pc = "flush"
    /\ AutoResumable
    /\ auto' = [auto EXCEPT !.pc = "sigterm_sent"]
    /\ sigterm_count' = sigterm_count + 1
    /\ proc' = "shutting_down"
    /\ ret' = NoRet
    /\ UNCHANGED <<now, start_time, task_results, runs, exit_code, work_done>>

\* The process ends after SIGTERM; runs still in flight are abandoned.
Terminate ==
    /\ proc = "shutting_down"
    /\ proc' = "terminated"
    /\ ret' = NoRet
    /\ UNCHANGED <<now, start_time, task_results, runs, auto, exit_code,
                   sigterm_count, work_done>>

\* --------------------------------------------------------- read handlers
\* Path parameters the environment asks GET /tasks/{task_id} for.
QueryIds == {TaskId(n) : n \in 1..(MaxManualRuns + 2)} \cup {"task_0", "1"}

\* get_task_result, lines 143-145: the linear scan; 0 when nothing matches.
RECURSIVE ScanFrom(_, _, _)
ScanFrom(store, task_id, i) ==
    IF i > Len(store) THEN 0
    ELSE IF store[i].task_id = task_id THEN i
    ELSE ScanFrom(store, task_id, i + 1)

\* Mutation: the last matching entry wins (as with a dict keyed by id).
Scan_last(store, task_id) ==
    LET M == {i \in 1..Len(store) : store[i].task_id = task_id}
    IN  IF M = {} THEN 0 ELSE CHOOSE i \in M : \A j \in M : j <= i

Scan(store, task_id) == ScanFrom(store, task_id, 1)

\* get_task_result, lines 141-147.
get_task_result(task_id) ==
    IF Scan(task_results, task_id) > 0
    THEN Reply("get_task_result", task_id, 200,
               <<task_results[Scan(task_results, task_id)]>>, "", 0)
    ELSE Reply("get_task_result", task_id, 404, <<>>, "Task not found", 0)

\* get_task_history, lines 135-137.
get_task_history == Reply("get_task_history", "", 200, task_results, "", 0)

\* health_check, lines 80-85.
health_check ==
    [op |-> "health_check", arg |-> "", code |-> 200, body |-> <<>>, detail |-> "",
     status |-> "healthy", uptime_seconds |-> Uptime, run |-> 0]

\* root, lines 69-76.
root ==
    [op |-> "root", arg |-> "", code |-> 200, body |-> <<>>, detail |-> "",
     status |-> "running", uptime_seconds |-> Uptime, run |-> 0]

GetRoot ==
    /\ Serving
    /\ ret' = root
    /\ UNCHANGED <<now, start_time, task_results, runs, auto, proc,
                   exit_code, sigterm_count, work_done>>

\* Mutation: the health check re-reads the clock into start_time.
GetHealth_restarts_clock ==
    /\ Serving
    /\ ret' = health_check
    /\ start_time' = now
    /\ UNCHANGED <<now, task_results, runs, auto, proc,
                   exit_code, sigterm_count, work_done>>

GetHealth ==
    /\ Serving
    /\ ret' = health_check
    /\ UNCHANGED <<now, start_time, task_results, runs, auto, proc,
                   exit_code, sigterm_count, work_done>>

GetTasks ==
    /\ Serving
    /\ ret' = get_task_history
    /\ UNCHANGED <<now, start_time, task_results, runs, auto, proc,
                   exit_code, sigterm_count, work_done>>

GetTask(task_id) ==
    /\ Serving
    /\ ret' = get_task_result(task_id)
    /\ UNCHANGED <<now, start_time, task_results, runs, auto, proc,
                   exit_code, sigterm_count, work_done>>

\* ------------------------------------------------------------------ Next
\* The steps of the runs, of the clock and of the lifecycle.
RunsNext ==
    \/ Tick
    \/ PostRunTask
    \/ \E r \in 1..Len(runs) : WorkStep(r)
    \/ \E r \in 1..Len(runs) : PostRunTaskReturn(r)
    \/ \E r \in 1..Len(runs), e \in ErrTexts : PostRunTaskRaise(r, e)
    \/ AutoRunStart
    \/ AutoRunReturn
    \/ \E e \in ErrTexts : AutoRunRaise(e)
    \/ AutoShutdown
    \/ Terminate

\* The read-only handlers: they change nothing but the answer handed back.
ReadsNext ==
    \/ GetRoot
    \/ GetHealth
    \/ GetTasks
    \/ \E t \in QueryIds : GetTask(t)

Next == RunsNext \/ ReadsNext

Spec == Init /\ [][Next]_vars

\* The event loop resumes every coroutine whose sleep has elapsed, lets
\* time pass when none is ready, and the process ends once SIGTERM was sent.
RunProgress(r) ==
    \/ WorkStep(r)
    \/ PostRunTaskReturn(r)
    \/ \E e \in ErrTexts : PostRunTaskRaise(r, e)
    \/ (auto.run = r /\ (AutoRunReturn \/ \E e \in ErrTexts : AutoRunRaise(e)))

Fairness ==
    /\ WF_vars(Tick)
    /\ WF_vars(AutoRunStart)
    /\ WF_vars(AutoShutdown)
    /\ WF_vars(Terminate)
    /\ \A r \in 1..(MaxManualRuns + 1) : WF_vars(RunProgress(r))

\* The lifecycle under fairness.  The read-only handlers are left out: they
\* neither enable nor disable any step and write only ret.
FairSpec == Init /\ [][RunsNext]_vars /\ Fairness

\* =================================================================
\* Properties
\* =================================================================
\* Runs that have finished: run_main_task returned or raised.
FinishedRuns == {r \in 1..Len(runs) : runs[r].pc \in {"returned", "raised"}}

InFlightRuns == {r \in 1..Len(runs) : runs[r].pc = "working"}

\* The number n of a task_id "task_<n>" (0 when it is no such id).
TaskNum(task_id) ==
    IF \E n \in 1..(Len(runs) + 1) : TaskId(n) = task_id
    THEN CHOOSE n \in 1..(Len(runs) + 1) : TaskId(n) = task_id
    ELSE 0

IsPrefix(s, t) == Len(s) <= Len(t) /\ SubSeq(t, 1, Len(s)) = s

\* C1: after any N finished runs, overlapping ones included, the store
\* holds exactly N entries whose task_id numbers are pairwise distinct and
\* strictly increasing in append order.
C1_UniqueIncreasingIds ==
    /\ Len(task_results) = Cardinality(FinishedRuns)
    /\ \A i, j \in 1..Len(task_results) :
          i < j => TaskNum(task_results[i].task_id)
                     < TaskNum(task_results[j].task_id)

\* C2: every finished invocation of run_main_task, returned or raised, has
\* appended exactly one entry (its own), an invocation still in flight has
\* appended none, and the store length is the number of finished
\* invocations.
C2_OneAppendPerRun ==
    /\ Len(task_results) = Cardinality(FinishedRuns)
    /\ \A r \in FinishedRuns :
          /\ runs[r].pos \in 1..Len(task_results)
          /\ <<task_results[runs[r].pos]>> = runs[r].result
          /\ \A s \in FinishedRuns : runs[s].pos = runs[r].pos => s = r
    /\ \A r \in InFlightRuns : runs[r].pos = 0 /\ runs[r].result = <<>>

\* C2's case: a run that returned and a run that raised have both finished.
C2_Witness ==
    /\ \E r \in FinishedRuns : runs[r].pc = "returned"
    /\ \E r \in FinishedRuns : runs[r].pc = "raised"
    /\ Len(task_results) = 2

\* C3: a run surfaces an error to its caller exactly when the entry it
\* appended has status "failed"; a run that returns has appended a
\* "completed" entry and returns that very entry; the step that raises or
\* returns is the step that appended the entry.
C3_ErrorIffFailedEntry ==
    /\ \A r \in FinishedRuns :
          /\ runs[r].pos \in 1..Len(task_results)
          /\ runs[r].pc = "raised"
                <=> task_results[runs[r].pos].status = "failed"
          /\ runs[r].pc = "returned"
                <=> task_results[runs[r].pos].status = "completed"
    /\ ret.op = "run_main_task" =>
          /\ ret.run \in FinishedRuns
          /\ runs[ret.run].pos = Len(task_results)
          /\ ret.code = 500 =>
                /\ runs[ret.run].pc = "raised"
                /\ task_results[Len(task_results)].status = "failed"
                /\ task_results[Len(task_results)].message = ret.detail
                /\ ret.body = <<>>
          /\ ret.code = 200 =>
                /\ runs[ret.run].pc = "returned"
                /\ ret.body = <<task_results[Len(task_results)]>>
                /\ task_results[Len(task_results)].status = "completed"
          /\ ret.code \in {200, 500}

\* C3's case: a manual run has just answered 500 after a run that returned.
C3_Witness ==
    /\ ret.op = "run_main_task"
    /\ ret.code = 500
    /\ runs[ret.run].caller = "http"
    /\ \E r \in FinishedRuns : runs[r].pc = "returned"

\* C4: the store is append-only: in every step of every operation the old
\* contents of task_results are a prefix of the new contents.
C4_AppendOnly == [][IsPrefix(task_results, task_results')]_vars

\* C4's case: a read handler has answered while two entries are stored.
C4_Witness ==
    /\ Len(task_results) = 2
    /\ task_results[1] /= task_results[2]
    /\ ret.op \in {"root", "health_check", "get_task_history",
                   "get_task_result"}

\* C5: get_task_result(task_id) answers with the exact TaskResult appended
\* by the run the task_id was issued to, and answers 404 "Task not found"
\* for a task_id issued to no run, while the process keeps running.
C5_GetReturnsRunsEntry ==
    ret.op = "get_task_result" =>
        /\ \A r \in FinishedRuns :
              runs[r].task_id = ret.arg =>
                  ret.code = 200 /\ ret.body = runs[r].result
        /\ (\A r \in 1..Len(runs) : runs[r].task_id /= ret.arg) =>
              /\ ret.code = 404
              /\ ret.detail = "Task not found"
              /\ ret.body = <<>>
        /\ proc = "running"

\* C6: a failure of a run started by POST /run-task leaves the process
\* state as it was; the process exits only in the step in which the
\* auto-run raises, and then with status 1.
C6_ManualFailureStep ==
    /\ (/\ ret'.op = "run_main_task"
        /\ ret'.code = 500
        /\ runs'[ret'.run].caller = "http")
          => (proc' = proc /\ exit_code' = exit_code /\ auto' = auto)
    /\ (proc' = "exited" /\ proc /= "exited")
          => /\ exit_code' = 1
             /\ ret'.op = "run_main_task"
             /\ ret'.code = 500
             /\ ret'.run = auto.run
             /\ runs'[auto.run].caller = "auto"
             /\ runs'[auto.run].pc = "raised"
    /\ exit_code' /= -1 => proc' = "exited"

C6_ManualFailureNotFatal == [][C6_ManualFailureStep]_vars

\* C6's case: a manual run failed, a run invoked after that failure has
\* returned, and the process is still serving.
C6_Witness ==
    /\ proc = "running"
    /\ \E r \in FinishedRuns :
          /\ runs[r].caller = "http"
          /\ runs[r].pc = "raised"
          /\ \E s \in FinishedRuns :
                /\ s > r
                /\ runs[s].pc = "returned"
                /\ runs[s].task_start >= runs[r].result[1].timestamp

\* C7: when the auto-run's Work Unit fails the process has exited with
\* status 1 in the very step that appended the failed entry (Running ->
\* Failed -> ProcessExit): the failed entry is the last one of the store, no
\* time has passed since, no flush delay was started and SIGTERM was never
\* requested.
C7_AutoFailureExits ==
    /\ auto.pc = "failed" <=> proc = "exited"
    /\ (auto.run /= 0 /\ runs[auto.run].pc = "raised") => proc = "exited"
    /\ proc = "exited" =>
          /\ exit_code = 1
          /\ sigterm_count = 0
          /\ runs[auto.run].pc = "raised"
          /\ runs[auto.run].pos = Len(task_results)
          /\ task_results[Len(task_results)].status = "failed"
          /\ task_results[Len(task_results)].timestamp = now
          /\ <<task_results[Len(task_results)]>> = runs[auto.run].result

\* C7's case: the auto-run failed while a manual run was still in flight.
C7_Witness ==
    /\ proc = "exited"
    /\ auto.pc = "failed"
    /\ InFlightRuns /= {}

\* C8: when the auto-run's Work Unit completes normally the lifecycle is
\* Running -> Completed -> ShuttingDown -> Terminated: the completed entry
\* is in the store, SIGTERM is requested once and not before the flush
\* delay has elapsed since the entry's timestamp, the exit(1) path is never
\* taken, and under fairness the process is eventually terminated.
AutoEntry == task_results[runs[auto.run].pos]

C8_State ==
    /\ sigterm_count <= 1
    /\ sigterm_count = 1 <=> auto.pc = "sigterm_sent"
    /\ proc \in {"shutting_down", "terminated"} <=> auto.pc = "sigterm_sent"
    /\ auto.pc \in {"flush", "sigterm_sent"} =>
          /\ runs[auto.run].pc = "returned"
          /\ <<AutoEntry>> = runs[auto.run].result
          /\ AutoEntry.status = "completed"
          /\ proc /= "exited"
          /\ exit_code = -1
    /\ auto.pc = "flush" =>
          /\ auto.wake = AutoEntry.timestamp + FlushDelay
          /\ now <= auto.wake
    /\ auto.pc = "sigterm_sent" => now >= AutoEntry.timestamp + FlushDelay

C8_Step ==
    auto'.pc /= auto.pc =>
        /\ <<auto.pc, auto'.pc>> \in
              {<<"warmup", "running">>, <<"running", "flush">>,
               <<"running", "failed">>, <<"flush", "sigterm_sent">>}
        /\ auto'.pc = "sigterm_sent" => now = AutoEntry.timestamp + FlushDelay

C8_SuccessLifecycle ==
    /\ []C8_State
    /\ [][C8_Step]_vars
    /\ (auto.pc = "flush") ~> (proc = "terminated")

\* C8's case: the auto-run completed and the process was terminated.
C8_Witness ==
    /\ proc = "terminated"
    /\ sigterm_count = 1
    /\ runs[auto.run].pc = "returned"

\* C9: the entries are stored in the order in which the Work Units of their
\* runs ended, whatever the order in which the runs were requested.
C9_CompletionOrder ==
    /\ Len(task_results) = Len(work_done)
    /\ \A i \in 1..Len(work_done) :
          <<task_results[i]>> = runs[work_done[i]].result
    /\ \A i, j \in 1..Len(task_results) :
          i < j => task_results[i].timestamp <= task_results[j].timestamp

\* C9's case: run a was requested before run b, b's work ended first and
\* b's entry precedes a's.
C9_Witness ==
    \E a, b \in FinishedRuns :
        /\ a < b
        /\ runs[a].task_start < runs[b].task_start
        /\ runs[b].result[1].timestamp < runs[a].result[1].timestamp
        /\ runs[b].pos < runs[a].pos

\* C10: from a fresh process, as long as no run was invoked while another
\* was in flight, the k-th run is issued "task_k" and the i-th entry of the
\* store has task_id "task_i".
ExpectedIds == <<"task_1", "task_2", "task_3", "task_4", "task_5">>

C10_SequentialIds ==
    (\A r \in 1..Len(runs) : runs[r].alone) =>
        /\ Len(task_results) = Cardinality(FinishedRuns)
        /\ \A r \in 1..Len(runs) : runs[r].task_id = ExpectedIds[r]
        /\ \A i \in 1..Len(task_results) :
              /\ task_results[i].task_id = ExpectedIds[i]
              /\ <<task_results[i]>> = runs[i].result

\* C10's case: two runs, the second invoked after the first had appended.
C10_Witness ==
    /\ \A r \in 1..Len(runs) : runs[r].alone
    /\ Len(task_results) = 2
    /\ task_results[1].task_id = "task_1"
    /\ task_results[2].task_id = "task_2"

\* C11: the task_id of a run is "task_" followed by the store length at
\* its invocation plus one, and the entry the run appends carries that id
\* whatever other runs appended while it was suspended in the Work Unit.
C11_IdFixedAtInvocation ==
    \A r \in 1..Len(runs) :
        /\ runs[r].task_id = ExpectedIds[runs[r].store_len + 1]
        /\ r \in FinishedRuns =>
              /\ runs[r].result[1].task_id = ExpectedIds[runs[r].store_len + 1]
              /\ task_results[runs[r].pos].task_id
                    = ExpectedIds[runs[r].store_len + 1]

\* C11's case: another run appended while this run was suspended, and this
\* run completed and appended behind it.
C11_Witness ==
    \E r \in FinishedRuns :
        /\ runs[r].pc = "returned"
        /\ runs[r].pos > runs[r].store_len + 1

\* C12: when a manual run fails, the detail of the HTTP 500 answer is the
\* message of the failed entry that run appended, "Task failed: <error
\* text>", and a later get_task_history lists that entry with that message.
C12_DetailIsMessage ==
    /\ (ret.op = "run_main_task" /\ ret.code = 500) =>
          /\ ret.detail = task_results[Len(task_results)].message
          /\ ret.detail = runs[ret.run].detail
          /\ ret.detail \in {"Task failed: boom", "Task failed: disk full"}
    /\ \A r \in FinishedRuns :
          (runs[r].pc = "raised" /\ runs[r].caller = "http") =>
              /\ task_results[runs[r].pos].status = "failed"
              /\ task_results[runs[r].pos].message = runs[r].detail
              /\ ret.op = "get_task_history" =>
                    /\ Len(ret.body) >= runs[r].pos
                    /\ ret.body[runs[r].pos].status = "failed"
                    /\ ret.body[runs[r].pos].message = runs[r].detail
                    /\ <<ret.body[runs[r].pos]>> = runs[r].result

\* C12's case: the history is read after a manual run failed and another
\* run appended behind it.
C12_Witness ==
    /\ ret.op = "get_task_history"
    /\ \E r \in FinishedRuns :
          /\ runs[r].pc = "raised"
          /\ runs[r].caller = "http"
          /\ runs[r].detail = "Task failed: disk full"
          /\ runs[r].pos < Len(task_results)

\* C13: the Lifecycle Controller invokes run_main_task exactly once per
\* process lifetime: never before the warm-up delay of 2 units after startup
\* has elapsed, never a second time whatever the outcome of the first, and
\* under fairness the invocation does happen.
AutoRuns == {r \in 1..Len(runs) : runs[r].caller = "auto"}

C13_State ==
    /\ Cardinality(AutoRuns) <= 1
    /\ auto.pc = "warmup" <=> AutoRuns = {}
    /\ auto.pc = "warmup" => now - start_time <= 2
    /\ auto.pc /= "warmup" =>
          /\ AutoRuns = {auto.run}
          /\ runs[auto.run].task_start - start_time >= 2

C13_AutoRunOnce ==
    /\ []C13_State
    /\ <>(Cardinality(AutoRuns) = 1)

\* C13's case: the auto-run is over, a manual run was made as well, and the
\* process lived on to its termination with the one auto-run.
C13_Witness ==
    /\ proc = "terminated"
    /\ Cardinality(AutoRuns) = 1
    /\ Len(runs) = 2
    /\ runs[auto.run].task_start = 2

\* C14: reads are consistent while runs are in flight: get_task_history
\* and get_task_result answer only with complete entries of finished runs,
\* a run in flight contributes none, and the entry of every finished run is
\* observed by get_task_history and by get_task_result asked for its id.
C14_ReadsConsistent ==
    /\ ret.op = "get_task_history" =>
          /\ Len(ret.body) = Cardinality(FinishedRuns)
          /\ \A i \in 1..Len(ret.body) :
                /\ ret.body[i].status \in {"completed", "failed"}
                /\ \E r \in FinishedRuns : <<ret.body[i]>> = runs[r].result
          /\ \A r \in FinishedRuns : <<ret.body[runs[r].pos]>> = runs[r].result
    /\ ret.op = "get_task_result" =>
          /\ ret.code = 200 =>
                /\ ret.body[1].status \in {"completed", "failed"}
                /\ \E r \in FinishedRuns : ret.body = runs[r].result
          /\ \A r \in FinishedRuns :
                runs[r].task_id = ret.arg => ret.body = runs[r].result

\* C15: no run is cancelled while the process lives: under fairness a run
\* in flight eventually appends its entry unless the process ends first;
\* once the process has ended (terminated after SIGTERM, or exited after an
\* auto-run failure) neither the store nor any run changes any more, so a
\* run in flight at that moment never appends.
Ended == proc \in {"terminated", "exited"}

C15_Step ==
    Ended => /\ task_results' = task_results
             /\ runs' = runs
             /\ proc' = proc

C15_NoCancellation ==
    /\ [][C15_Step]_vars
    /\ \A r \in 1..(MaxManualRuns + 1) :
          Working(r) ~> ((r \in FinishedRuns /\ runs[r].pos > 0) \/ Ended)

\* C15's case: the process was terminated after a successful auto-run
\* while a manual run was still in flight.
C15_Witness ==
    /\ proc = "terminated"
    /\ InFlightRuns /= {}
    /\ Len(task_results) = 1
    /\ \E r \in InFlightRuns : runs[r].wake <= now

\* C16: root, health_check, get_task_history and get_task_result leave
\* task_results and start_time (and the runs and the process) as they were;
\* root and health_check are answered with 200 (status "healthy", uptime
\* derived from start_time) whenever the process serves, whatever runs are
\* in flight; no step of any operation changes start_time.
ReadOps == {"root", "health_check", "get_task_history", "get_task_result"}

C16_Step ==
    /\ start_time' = start_time
    /\ ret'.op \in ReadOps =>
          /\ task_results' = task_results
          /\ runs' = runs
          /\ proc' = proc
          /\ now' = now
    /\ ret'.op = "health_check" =>
          /\ ret'.code = 200
          /\ ret'.status = "healthy"
          /\ ret'.uptime_seconds = now - start_time
    /\ ret'.op = "root" =>
          /\ ret'.code = 200
          /\ ret'.uptime_seconds = now - start_time

C16_ReadsHaveNoEffect ==
    /\ [][C16_Step]_vars
    /\ [](proc = "running" => (ENABLED GetRoot /\ ENABLED GetHealth))

\* C16's case: the health check answers while a run is in flight and an
\* entry is stored, some time after startup.
C16_Witness ==
    /\ ret.op = "health_check"
    /\ ret.uptime_seconds > 0
    /\ InFlightRuns /= {}
    /\ Len(task_results) >= 1

\* C17: every stored entry has duration_seconds >= 0; the duration is the
\* clock span from the run's task_start to the moment its Work Unit
\* completed or failed (the sleeps of the sub-steps it went through), and
\* the entry's timestamp is not earlier than task_start plus the duration.
RECURSIVE Elapsed(_)
Elapsed(k) == IF k = 0 THEN 0 ELSE Durations[k] + Elapsed(k - 1)

C17_Duration ==
    /\ \A i \in 1..Len(task_results) : task_results[i].duration_seconds >= 0
    /\ \A r \in FinishedRuns :
          LET entry == task_results[runs[r].pos]
          IN  /\ <<entry>> = runs[r].result
              /\ entry.duration_seconds >= 0
              /\ entry.duration_seconds = Elapsed(runs[r].step)
              /\ entry.duration_seconds = entry.timestamp - runs[r].task_start
              /\ entry.timestamp >= runs[r].task_start + entry.duration_seconds
              /\ runs[r].pc = "returned" => entry.duration_seconds = 13

\* C17's case: a completed entry of full length and a failed entry of a
\* run that failed after its second sub-step.
C17_Witness ==
    /\ \E i \in 1..Len(task_results) :
          /\ task_results[i].status = "completed"
          /\ task_results[i].duration_seconds = 13
    /\ \E i \in 1..Len(task_results) :
          /\ task_results[i].status = "failed"
          /\ task_results[i].duration_seconds = 7

\* C18: in every reachable state the entry at position i of the store has
\* task_id "task_n" with 1 <= n <= i; in particular the first entry is
\* "task_1" and no id number exceeds the store length.
C18_IdAtMostPosition ==
    /\ \A i \in 1..Len(task_results) :
          \E n \in 1..i : task_results[i].task_id = ExpectedIds[n]
    /\ Len(task_results) >= 1 => task_results[1].task_id = "task_1"

\* C18's case: an entry whose id number is smaller than its position.
C18_Witness ==
    /\ Len(task_results) = 2
    /\ task_results[1].task_id = "task_1"
    /\ task_results[2].task_id = "task_1"

\* C19: get_task_result answers with the earliest-appended entry whose
\* task_id equals its argument (404 when there is none); an entry that
\* follows another entry with the same task_id is never the one the scan
\* finds, and is still listed by get_task_history.
Matches(task_id) ==
    {i \in 1..Len(task_results) : task_results[i].task_id = task_id}

C19_EarliestMatch ==
    /\ ret.op = "get_task_result" =>
          IF Matches(ret.arg) = {}
          THEN ret.code = 404 /\ ret.body = <<>>
          ELSE /\ ret.code = 200
               /\ \E i \in Matches(ret.arg) :
                     /\ \A j \in Matches(ret.arg) : i <= j
                     /\ ret.body = <<task_results[i]>>
    /\ \A t \in QueryIds, j \in 1..Len(task_results) :
          (\E i \in 1..(j - 1) :
               task_results[i].task_id = task_results[j].task_id)
              => Scan(task_results, t) /= j
    /\ ret.op = "get_task_history" => ret.body = task_results

\* C19's case: two different entries share the id asked for, and the
\* answer is the first of them.
C19_Witness ==
    /\ ret.op = "get_task_result"
    /\ ret.code = 200
    /\ Len(task_results) = 2
    /\ Matches(ret.arg) = {1, 2}
    /\ task_results[1] /= task_results[2]
    /\ ret.body = <<task_results[1]>>

====
